---- MODULE Spec2Model ----
(***************************************************************************)
(* Model of the tactical planning system (samliumay/TPF).                  *)
(*                                                                         *)
(*  - PlanningContext (src/unnamed/part_004): the task repository, a React *)
(*    state `tasks` mutated by addTask / updateTask / deleteTask /         *)
(*    catastrophicWipeOut through functional setTasks updaters.            *)
(*  - ObservationsContext: the observation repository.  Its file is not    *)
(*    part of the sources; its operations are modelled from spec.md 4.3    *)
(*    and 4.4.                                                             *)
(*  - pages/Observations.jsx: the page that drives both contexts (capture, *)
(*    analyze, convert, delete) and memoises the two buffer lists.         *)
(*                                                                         *)
(* Time is counted in ticks, TicksPerDay ticks to a day; Date.now() and    *)
(* new Date() both read the clock `now`.                                   *)
(***************************************************************************)
EXTENDS Integers, Sequences, FiniteSets, TLC

VARIABLES
    tasks,                \* PlanningProvider: const [tasks, setTasks] = useState([])
    observations,         \* ObservationsProvider: the observation list
    obsCounter,           \* number of observation ids handed out so far
    now,                  \* the wall clock, in ticks
    selectedObservation,  \* Observations page: useState(null), a snapshot object
    isAnalysisModalOpen,  \* Observations page: useState(false)
    isConvertModalOpen,   \* Observations page: useState(false)
    inBuffer,             \* Observations page: useMemo(() => getInBuffer(), ...)
    readyForAnalysis,     \* Observations page: useMemo(() => getReadyForAnalysis(), ...)
    availableTime,        \* PlanningProvider: const [availableTime, setAvailableTime] = useState(8)
    dashboard,            \* Dashboard: the memoised todayTasks, realismPoint, sortedTasks and the status
    dailyPlan,            \* DailyPlan page: isFormOpen, editingTask, formData.parentTaskId
    treeView,             \* TaskTreeView: the walk that builds and renders taskTree
    pending,              \* React: the setTasks updaters queued since the last commit
    inOrder,              \* history: the queued mutations applied one after another
    last                  \* history: the last operation, its outcome and its pre-state

vars == <<tasks, observations, obsCounter, now, selectedObservation,
          isAnalysisModalOpen, isConvertModalOpen, inBuffer, readyForAnalysis,
          availableTime, dashboard, dailyPlan, treeView, pending, inOrder, last>>

pageVars == <<selectedObservation, isAnalysisModalOpen, isConvertModalOpen,
              inBuffer, readyForAnalysis>>

obsVars == <<observations, obsCounter>>

dashVars == <<availableTime, dashboard>>

batchVars == <<pending, inOrder>>

extVars == <<dailyPlan, treeView, batchVars>>

----------------------------------------------------------------------------
(* Bounds *)

MaxTasks == 3        \* tasks ever held at once in the task repository runs
MaxClock == 3        \* last clock value in the task repository runs
MaxObs == 2          \* observations captured in one run
MaxTime == 7         \* last clock value in the observation runs
MaxPageTasks == 2    \* tasks held at once in the Observations page runs

(* Program constants *)

IMPORTANCE_MUST == 1
IMPORTANCE_HIGH == 2
IMPORTANCE_MEDIUM == 3
IMPORTANCE_OPTIONAL == 4
\* mutants: a buffer of one day, a buffer of three days
BufferOfOneDay == 2 - 1
BufferOfThreeDays == 2 + 1

OBSERVATION_BUFFER_DAYS == 2
DEFAULT_AVAILABLE_TIME == 8

TicksPerDay == 2     \* clock resolution: ticks in one day

NoId == 0            \* null / undefined reference (parentTaskId, convertedTaskId)
NoObs == [id |-> NoId]   \* selectedObservation === null

----------------------------------------------------------------------------
(* PlanningContext: pure updaters applied by setTasks((prev) => ...) *)

\* addTask builds the new task from title, rt, idl, il only; any other field
\* of its argument (parentTaskId included) is dropped.
NewTask(task, clock) ==
    [id |-> clock, title |-> task.title, rt |-> task.rt, idl |-> task.idl,
     il |-> task.il, createdAt |-> clock, parentTaskId |-> NoId]

\* mutant: the updater forgets the previous list
addTaskDropsPrev(prev, task, clock) == <<NewTask(task, clock)>>

addTask(prev, task, clock) == Append(prev, NewTask(task, clock))

\* { ...task, ...updates, rt: ..., idl: ..., il: ... }
MergeUpdates(task, updates) ==
    [f \in DOMAIN task \cup DOMAIN updates |->
        IF f \in DOMAIN updates THEN updates[f] ELSE task[f]]

\* mutant: the id test is lost, every task takes the updates
updateTaskEveryTask(prev, taskId, updates) ==
    [i \in 1..Len(prev) |-> MergeUpdates(prev[i], updates)]

updateTask(prev, taskId, updates) ==
    [i \in 1..Len(prev) |->
        IF prev[i].id = taskId THEN MergeUpdates(prev[i], updates) ELSE prev[i]]

KeepOtherIds(prev, taskId) == SelectSeq(prev, LAMBDA t: t.id # taskId)

deleteTask(prev, taskId) == KeepOtherIds(prev, taskId)

\* mutants: the filter keeps the other tasks; only the first other task goes
catastrophicWipeOutInverted(prev) == SelectSeq(prev, LAMBDA t: t.il # IMPORTANCE_MUST)

catastrophicWipeOutOneAtATime(prev) ==
    IF \E i \in 1..Len(prev) : prev[i].il # IMPORTANCE_MUST
    THEN LET k == CHOOSE i \in 1..Len(prev) :
                      /\ prev[i].il # IMPORTANCE_MUST
                      /\ \A j \in 1..(i - 1) : prev[j].il = IMPORTANCE_MUST
         IN SubSeq(prev, 1, k - 1) \o SubSeq(prev, k + 1, Len(prev))
    ELSE prev

catastrophicWipeOut(prev) == SelectSeq(prev, LAMBDA t: t.il = IMPORTANCE_MUST)

----------------------------------------------------------------------------
(* Derived views of the task list *)

Range(s) == {s[i] : i \in 1..Len(s)}

TaskIds(ts) == {t.id : t \in Range(ts)}

\* ids reached from id by one parentTaskId step
ParentsOf(ts, ids) ==
    {t.parentTaskId : t \in {u \in Range(ts) : u.id \in ids}} \ {NoId}

RECURSIVE AncestorsWithin(_, _, _)
AncestorsWithin(ts, ids, n) ==
    IF n = 0 THEN {}
    ELSE ParentsOf(ts, ids) \cup AncestorsWithin(ts, ParentsOf(ts, ids), n - 1)

\* ids reached from id by one or more parentTaskId steps
Ancestors(ts, id) == AncestorsWithin(ts, {id}, Len(ts) + 1)

\* ids of the tasks that have id on their ancestor chain
Descendants(ts, id) == {t.id : t \in {u \in Range(ts) : id \in Ancestors(ts, u.id)}}

----------------------------------------------------------------------------
(* History record *)

NoForm == [title |-> "", rt |-> "", idl |-> "", il |-> 0]

NoUpdates == [none |-> 0]

Last(op, res, id, preTasks, preObs) ==
    [op |-> op, res |-> res, id |-> id, preTasks |-> preTasks, preObs |-> preObs,
     newId |-> NoId, form |-> NoForm, updates |-> NoUpdates, text |-> "", at |-> now]

\* DailyPlan: the form is closed, nothing is being edited, no parent chosen
NoDailyPlanForm == [isFormOpen |-> FALSE, editingTask |-> NoId, parentTaskId |-> ""]

\* TaskTreeView before getTaskTree is called
NoTreeView == [pc |-> "idle", stack |-> <<>>, visited |-> {}, taskTree |-> <<>>,
               expandedNodes |-> {}, toRender |-> <<>>, rendered |-> 0, steps |-> 0]

\* the Dashboard before it is mounted
NoDashboard ==
    [date |-> 0, todayTasks |-> <<>>, realismPoint |-> [num |-> 0, den |-> 1],
     status |-> "", sortedTasks |-> <<>>]

----------------------------------------------------------------------------
(* Initial state: both providers start empty, the page has nothing selected *)

Init ==
    /\ tasks = <<>>
    /\ observations = <<>>
    /\ obsCounter = 0
    /\ now = 1
    /\ selectedObservation = NoObs
    /\ isAnalysisModalOpen = FALSE
    /\ isConvertModalOpen = FALSE
    /\ inBuffer = <<>>
    /\ readyForAnalysis = <<>>
    /\ availableTime = DEFAULT_AVAILABLE_TIME
    /\ dashboard = NoDashboard
    /\ dailyPlan = NoDailyPlanForm
    /\ treeView = NoTreeView
    /\ pending = <<>>
    /\ inOrder = <<>>
    /\ last = Last("init", "ok", NoId, <<>>, <<>>)

----------------------------------------------------------------------------
(* Task repository operations, called with any argument *)

TaskSpecs == [title : {"t"}, rt : {1}, idl : {1}, il : {IMPORTANCE_MUST, IMPORTANCE_MEDIUM}]

ParentUpdates(ts) == [parentTaskId : TaskIds(ts) \cup {NoId}]

Tick(bound) ==
    /\ now < bound
    /\ now' = now + 1
    /\ UNCHANGED <<extVars, dashVars, tasks, observations, obsCounter, pageVars, last>>

TickTasks == Tick(MaxClock)

AddTask ==
    \E task \in TaskSpecs :
        /\ Len(tasks) < MaxTasks
        /\ tasks' = addTask(tasks, task, now)
        /\ last' = [Last("addTask", "ok", now, tasks, observations) EXCEPT !.newId = now]
        /\ UNCHANGED <<extVars, dashVars, obsVars, now, pageVars>>

UpdateTask ==
    \E taskId \in TaskIds(tasks), updates \in ParentUpdates(tasks) :
        /\ tasks' = updateTask(tasks, taskId, updates)
        /\ last' = [Last("updateTask", "ok", taskId, tasks, observations)
                        EXCEPT !.updates = updates]
        /\ UNCHANGED <<extVars, dashVars, obsVars, now, pageVars>>

DeleteTask ==
    \E taskId \in TaskIds(tasks) :
        /\ tasks' = deleteTask(tasks, taskId)
        /\ last' = Last("deleteTask", "ok", taskId, tasks, observations)
        /\ UNCHANGED <<extVars, dashVars, obsVars, now, pageVars>>

CatastrophicWipeOut ==
    /\ tasks' = catastrophicWipeOut(tasks)
    /\ last' = Last("catastrophicWipeOut", "ok", NoId, tasks, observations)
    /\ UNCHANGED <<extVars, dashVars, obsVars, now, pageVars>>

Next == AddTask \/ UpdateTask \/ DeleteTask \/ CatastrophicWipeOut \/ TickTasks

Spec == Init /\ [][Next]_vars

----------------------------------------------------------------------------
(* Task repository operations with any field value and any id *)

FieldSpecs == [title : {"t"}, rt : {-1, 2}, idl : {1}, il : {IMPORTANCE_MUST, 5}]

FieldUpdates == [rt : {-1, 2}] \cup [il : {IMPORTANCE_HIGH, 5}]

TaskIdArgs == 1..(MaxClock + 1)

AddTaskAny ==
    \E task \in FieldSpecs :
        /\ Len(tasks) < MaxTasks
        /\ tasks' = addTask(tasks, task, now)
        /\ last' = [Last("addTask", "ok", now, tasks, observations) EXCEPT !.newId = now]
        /\ UNCHANGED <<extVars, dashVars, obsVars, now, pageVars>>

UpdateTaskFields ==
    \E taskId \in TaskIdArgs, updates \in FieldUpdates :
        /\ tasks' = updateTask(tasks, taskId, updates)
        /\ last' = [Last("updateTask", "ok", taskId, tasks, observations)
                        EXCEPT !.updates = updates]
        /\ UNCHANGED <<extVars, dashVars, obsVars, now, pageVars>>

NextFields == AddTaskAny \/ UpdateTaskFields \/ DeleteTask \/ TickTasks

SpecFields == Init /\ [][NextFields]_vars

----------------------------------------------------------------------------
(* updateTask called with any partial task: the spread takes every field *)

MaxUpdTasks == 2     \* tasks held at once in the any-field update runs
MaxUpdClock == 2     \* last clock value in the any-field update runs

AnyUpdates ==
    [id : {2}] \cup [createdAt : {0}] \cup [title : {"u"}] \cup [linksTo : {<<2>>}]

UpdIdArgs == 1..MaxUpdClock

TickUpdates == Tick(MaxUpdClock)

UpdSpecs == [title : {"t"}, rt : {1}, idl : {1}, il : {IMPORTANCE_MEDIUM}]

AddTaskForUpdate ==
    \E task \in UpdSpecs :
        /\ Len(tasks) < MaxUpdTasks
        /\ tasks' = addTask(tasks, task, now)
        /\ last' = [Last("addTask", "ok", now, tasks, observations) EXCEPT !.newId = now]
        /\ UNCHANGED <<extVars, dashVars, obsVars, now, pageVars>>

UpdateTaskAny ==
    \E taskId \in UpdIdArgs, updates \in AnyUpdates :
        /\ tasks' = updateTask(tasks, taskId, updates)
        /\ last' = [Last("updateTask", "ok", taskId, tasks, observations)
                        EXCEPT !.updates = updates]
        /\ UNCHANGED <<extVars, dashVars, obsVars, now, pageVars>>

NextUpdates == AddTaskForUpdate \/ UpdateTaskAny \/ DeleteTask \/ TickUpdates

SpecUpdates == Init /\ [][NextUpdates]_vars

----------------------------------------------------------------------------
(* setTasks((prev) => ...): the four mutators hand React an updater; the   *)
(* updaters issued before the next render are queued and run in issue      *)
(* order when the state is committed, each on the result of the one before *)

MaxBatchTasks == 2   \* tasks held at once in the batched runs
MaxPending == 2      \* updaters queued before a commit
MaxBatchClock == 2   \* last clock value in the batched runs

NoTaskSpec == [title |-> "", rt |-> 0, idl |-> 0, il |-> 0]

\* what an updater closes over: the new task's fields and the clock reading
\* of addTask, the arguments of updateTask and deleteTask
Updater(op, task, clock, taskId, updates) ==
    [op |-> op, task |-> task, clock |-> clock, taskId |-> taskId, updates |-> updates]

\* mutant: the updater works on the tasks of the render it was issued in
ApplyUpdaterToRendered(prev, u, rendered) ==
    CASE u.op = "addTask" -> addTask(rendered, u.task, u.clock)
      [] u.op = "updateTask" -> updateTask(rendered, u.taskId, u.updates)
      [] u.op = "deleteTask" -> deleteTask(rendered, u.taskId)
      [] OTHER -> catastrophicWipeOut(rendered)

ApplyUpdater(prev, u, rendered) ==
    CASE u.op = "addTask" -> addTask(prev, u.task, u.clock)
      [] u.op = "updateTask" -> updateTask(prev, u.taskId, u.updates)
      [] u.op = "deleteTask" -> deleteTask(prev, u.taskId)
      [] OTHER -> catastrophicWipeOut(prev)

\* React runs the queue on the committed state
RECURSIVE RunUpdaters(_, _, _)
RunUpdaters(state, queue, rendered) ==
    IF queue = <<>> THEN state
    ELSE RunUpdaters(ApplyUpdater(state, Head(queue), rendered), Tail(queue), rendered)

BatchUpdates == [il : {IMPORTANCE_MUST}]

TickBatch == Tick(MaxBatchClock)

IssueAddTask ==
    \E task \in UpdSpecs :
        /\ Len(pending) < MaxPending
        /\ Len(inOrder) < MaxBatchTasks
        /\ pending' = Append(pending, Updater("addTask", task, now, NoId, NoUpdates))
        /\ inOrder' = addTask(inOrder, task, now)
        /\ UNCHANGED <<dailyPlan, treeView, dashVars, tasks, obsVars, now, pageVars, last>>

IssueUpdateTask ==
    \E taskId \in TaskIds(inOrder), updates \in BatchUpdates :
        /\ Len(pending) < MaxPending
        /\ pending' = Append(pending, Updater("updateTask", NoTaskSpec, 0, taskId, updates))
        /\ inOrder' = updateTask(inOrder, taskId, updates)
        /\ UNCHANGED <<dailyPlan, treeView, dashVars, tasks, obsVars, now, pageVars, last>>

IssueDeleteTask ==
    \E taskId \in TaskIds(inOrder) :
        /\ Len(pending) < MaxPending
        /\ pending' = Append(pending, Updater("deleteTask", NoTaskSpec, 0, taskId, NoUpdates))
        /\ inOrder' = deleteTask(inOrder, taskId)
        /\ UNCHANGED <<dailyPlan, treeView, dashVars, tasks, obsVars, now, pageVars, last>>

IssueWipeOut ==
    /\ Len(pending) < MaxPending
    /\ pending' = Append(pending,
                         Updater("catastrophicWipeOut", NoTaskSpec, 0, NoId, NoUpdates))
    /\ inOrder' = catastrophicWipeOut(inOrder)
    /\ UNCHANGED <<dailyPlan, treeView, dashVars, tasks, obsVars, now, pageVars, last>>

\* the render after the handler: the queue runs, the state is committed
Commit ==
    /\ pending # <<>>
    /\ tasks' = RunUpdaters(tasks, pending, tasks)
    /\ pending' = <<>>
    /\ last' = Last("commit",
                     IF RunUpdaters(tasks, pending, tasks) = tasks THEN "same" ELSE "changed",
                     Len(pending), <<>>, <<>>)
    /\ UNCHANGED <<dailyPlan, treeView, inOrder, dashVars, obsVars, now, pageVars>>

NextBatch ==
    \/ IssueAddTask \/ IssueUpdateTask \/ IssueDeleteTask \/ IssueWipeOut
    \/ Commit \/ TickBatch

SpecBatch == Init /\ [][NextBatch]_vars

----------------------------------------------------------------------------
(* DailyPlan: the task form (new task, subtask, edit) and the task list    *)

MaxFormTasks == 3    \* tasks held at once in the form runs
MaxFormClock == 6    \* last clock value in the form runs

\* task.id.toString() as the value of a parent <option>, and parseFloat back
IdStrings == <<"1", "2", "3", "4", "5", "6", "7", "8">>

IdToString(id) == IF id = NoId THEN "" ELSE IdStrings[id]

ParseFloatId(s) == CHOOSE id \in 1..Len(IdStrings) : IdStrings[id] = s

\* mutant: every other task is offered as a parent, subtasks included
availableParentTasksWithSubtasks(ts, editingTask) ==
    SelectSeq(ts, LAMBDA task : editingTask = NoId \/ task.id # editingTask)

\* tasks.filter(task => !task.parentTaskId && (!editingTask || task.id !== editingTask.id))
availableParentTasks(ts, editingTask) ==
    SelectSeq(ts, LAMBDA task :
        /\ task.parentTaskId = NoId
        /\ (editingTask = NoId \/ task.id # editingTask))

\* the rows of the task list: root tasks only (of the selected date)
RootTasks(ts) == SelectSeq(ts, LAMBDA task : task.parentTaskId = NoId)

FormSpecs == [title : {"t"}, rt : {1}, idl : {1}, il : {IMPORTANCE_MEDIUM}]

TickForm == Tick(MaxFormClock)

\* "Add Task": handleOpenForm()
FormOpenNew ==
    /\ dailyPlan' = [isFormOpen |-> TRUE, editingTask |-> NoId, parentTaskId |-> ""]
    /\ UNCHANGED <<treeView, batchVars, dashVars, tasks, obsVars, now, pageVars, last>>

\* "Sub" on a row of the list: handleOpenForm(null, task.id)
FormOpenSub ==
    \E task \in Range(RootTasks(tasks)) :
        /\ dailyPlan' = [isFormOpen |-> TRUE, editingTask |-> NoId,
                         parentTaskId |-> IdToString(task.id)]
        /\ UNCHANGED <<treeView, batchVars, dashVars, tasks, obsVars, now, pageVars, last>>

\* "Edit" on a row of the list, or a task selected in the tree view:
\* handleOpenForm(task)
FormOpenEdit ==
    \E task \in Range(tasks) :
        /\ dailyPlan' = [isFormOpen |-> TRUE, editingTask |-> task.id,
                         parentTaskId |-> IdToString(task.parentTaskId)]
        /\ UNCHANGED <<treeView, batchVars, dashVars, tasks, obsVars, now, pageVars, last>>

\* the parent <select>: "None (Root Task)" or one of availableParentTasks
FormSelectParent ==
    /\ dailyPlan.isFormOpen
    /\ \E value \in {""} \cup {IdToString(task.id) :
                                task \in Range(availableParentTasks(tasks, dailyPlan.editingTask))} :
           dailyPlan' = [dailyPlan EXCEPT !.parentTaskId = value]
    /\ UNCHANGED <<treeView, batchVars, dashVars, tasks, obsVars, now, pageVars, last>>

\* handleSubmit with the required fields filled in. The form is filled in and
\* submitted by hand: the clock read by a submission is later than the clock
\* read by the submission before it.
FormSubmit ==
    \E form \in FormSpecs :
        LET taskData == [title |-> form.title, rt |-> form.rt, idl |-> form.idl,
                         il |-> form.il,
                         parentTaskId |-> IF dailyPlan.parentTaskId # ""
                                          THEN ParseFloatId(dailyPlan.parentTaskId)
                                          ELSE NoId]
        IN /\ dailyPlan.isFormOpen
           /\ now < MaxFormClock
           /\ now' = now + 1
           /\ dailyPlan.editingTask = NoId => Len(tasks) < MaxFormTasks
           /\ tasks' = IF dailyPlan.editingTask # NoId
                       THEN updateTask(tasks, dailyPlan.editingTask, taskData)
                       ELSE addTask(tasks, taskData, now)
           /\ dailyPlan' = NoDailyPlanForm
           /\ last' = [Last("handleSubmit", "ok", dailyPlan.editingTask, tasks, observations)
                           EXCEPT !.updates = [parentTaskId |-> taskData.parentTaskId]]
           /\ UNCHANGED <<treeView, batchVars, dashVars, obsVars, pageVars>>

FormClose ==
    /\ dailyPlan.isFormOpen
    /\ dailyPlan' = NoDailyPlanForm
    /\ UNCHANGED <<treeView, batchVars, dashVars, tasks, obsVars, now, pageVars, last>>

\* "Delete" on a row of the list, confirmed
FormDelete ==
    \E task \in Range(RootTasks(tasks)) :
        /\ tasks' = deleteTask(tasks, task.id)
        /\ last' = Last("handleDelete", "ok", task.id, tasks, observations)
        /\ UNCHANGED <<extVars, dashVars, obsVars, now, pageVars>>

NextForm ==
    \/ FormOpenNew \/ FormOpenSub \/ FormOpenEdit \/ FormSelectParent
    \/ FormSubmit \/ FormClose \/ FormDelete \/ TickForm

SpecForm == Init /\ [][NextForm]_vars

----------------------------------------------------------------------------
(* TaskTreeView: getTaskTree builds the forest from the root tasks down,   *)
(* depth-first, siblings in insertion order, with a visited-set guard;     *)
(* TreeNode renders a node and, when it is expanded, its children          *)

MaxTreeTasks == 3    \* tasks in a store handed to the tree view
MaxTreeId == 2       \* largest id in such a store
MaxTreeSteps == 8    \* steps of one walk, above 2 * MaxTreeTasks

TreeTask(id, parentTaskId) ==
    [id |-> id, title |-> "t", rt |-> 1, idl |-> 1, il |-> IMPORTANCE_MEDIUM,
     createdAt |-> id, parentTaskId |-> parentTaskId]

\* every store of the size: ids may repeat, parentTaskId may name any id,
\* the task itself and a task that names it back included
TreeStores ==
    UNION {[1..n -> {TreeTask(id, p) : id \in 1..MaxTreeId, p \in 0..MaxTreeId}] :
               n \in 0..MaxTreeTasks}

InitTree ==
    /\ tasks \in TreeStores
    /\ observations = <<>>
    /\ obsCounter = 0
    /\ now = 1
    /\ selectedObservation = NoObs
    /\ isAnalysisModalOpen = FALSE
    /\ isConvertModalOpen = FALSE
    /\ inBuffer = <<>>
    /\ readyForAnalysis = <<>>
    /\ availableTime = DEFAULT_AVAILABLE_TIME
    /\ dashboard = NoDashboard
    /\ dailyPlan = NoDailyPlanForm
    /\ treeView = NoTreeView
    /\ pending = <<>>
    /\ inOrder = <<>>
    /\ last = Last("init", "ok", NoId, <<>>, <<>>)

\* the positions of a sequence, in order
Positions(s) == [k \in 1..Len(s) |-> k]

\* the root tasks: no parentTaskId
rootPositions(ts) == SelectSeq(Positions(ts), LAMBDA i : ts[i].parentTaskId = NoId)

\* mutant: no guard, every task naming the node as parent is a child again
childPositionsUnguarded(ts, i, visited) ==
    SelectSeq(Positions(ts), LAMBDA j : ts[j].parentTaskId = ts[i].id)

\* the subtasks of ts[i] that are not yet placed in the forest
childPositions(ts, i, visited) ==
    SelectSeq(Positions(ts), LAMBDA j : ts[j].parentTaskId = ts[i].id /\ j \notin visited)

\* a node of the forest, in depth-first order: the task (its position in the
\* store), its level, and the node it is a child of (0 for a root)
TreeEntry(task, level, parent) == [task |-> task, level |-> level, parent |-> parent]

EntriesOf(positions, level, parent) ==
    [k \in 1..Len(positions) |-> TreeEntry(positions[k], level, parent)]

\* task.children of the node at position k of the forest
childrenOf(tree, k) == SelectSeq(Positions(tree), LAMBDA j : tree[j].parent = k)

\* getTaskTree() is called
StartTree ==
    /\ treeView.pc = "idle"
    /\ treeView' = [treeView EXCEPT
           !.pc = "build",
           !.stack = EntriesOf(rootPositions(tasks), 0, 0),
           !.visited = Range(rootPositions(tasks)),
           !.taskTree = <<>>,
           !.steps = 0]
    /\ UNCHANGED <<dailyPlan, batchVars, dashVars, tasks, obsVars, now, pageVars, last>>

\* one node is placed and its children are queued before its later siblings
BuildStep ==
    /\ treeView.pc = "build"
    /\ treeView.stack # <<>>
    /\ treeView.steps < MaxTreeSteps
    /\ LET node == Head(treeView.stack)
           children == childPositions(tasks, node.task, treeView.visited)
           at == Len(treeView.taskTree) + 1
       IN treeView' = [treeView EXCEPT
              !.taskTree = Append(treeView.taskTree, node),
              !.stack = EntriesOf(children, node.level + 1, at) \o Tail(treeView.stack),
              !.visited = treeView.visited \cup Range(children),
              !.steps = treeView.steps + 1]
    /\ UNCHANGED <<dailyPlan, batchVars, dashVars, tasks, obsVars, now, pageVars, last>>

\* getTaskTree returns; taskTree.map(rootTask => <TreeNode level={0}/>)
BuildDone ==
    /\ treeView.pc = "build"
    /\ treeView.stack = <<>>
    /\ treeView' = [treeView EXCEPT
           !.pc = "render",
           !.toRender = childrenOf(treeView.taskTree, 0),
           !.rendered = 0]
    /\ UNCHANGED <<dailyPlan, batchVars, dashVars, tasks, obsVars, now, pageVars, last>>

\* TreeNode: the node is rendered; its children follow when it has children
\* and its id is in expandedNodes
RenderStep ==
    /\ treeView.pc = "render"
    /\ treeView.toRender # <<>>
    /\ treeView.steps < MaxTreeSteps
    /\ LET k == Head(treeView.toRender)
           children == childrenOf(treeView.taskTree, k)
           hasChildren == Len(children) > 0
           isExpanded == tasks[treeView.taskTree[k].task].id \in treeView.expandedNodes
       IN treeView' = [treeView EXCEPT
              !.toRender = (IF hasChildren /\ isExpanded THEN children ELSE <<>>)
                               \o Tail(treeView.toRender),
              !.rendered = treeView.rendered + 1,
              !.steps = treeView.steps + 1]
    /\ UNCHANGED <<dailyPlan, batchVars, dashVars, tasks, obsVars, now, pageVars, last>>

RenderDone ==
    /\ treeView.pc = "render"
    /\ treeView.toRender = <<>>
    /\ treeView' = [treeView EXCEPT !.pc = "done"]
    /\ UNCHANGED <<dailyPlan, batchVars, dashVars, tasks, obsVars, now, pageVars, last>>

\* toggleNode(task.id) on a node with children; the tree is rendered again
ToggleNode ==
    /\ treeView.pc = "done"
    /\ \E k \in 1..Len(treeView.taskTree) :
           LET taskId == tasks[treeView.taskTree[k].task].id
           IN /\ Len(childrenOf(treeView.taskTree, k)) > 0
              /\ treeView' = [treeView EXCEPT
                     !.expandedNodes = IF taskId \in treeView.expandedNodes
                                       THEN treeView.expandedNodes \ {taskId}
                                       ELSE treeView.expandedNodes \cup {taskId},
                     !.pc = "render",
                     !.toRender = childrenOf(treeView.taskTree, 0),
                     !.rendered = 0,
                     !.steps = Len(treeView.taskTree)]
    /\ UNCHANGED <<dailyPlan, batchVars, dashVars, tasks, obsVars, now, pageVars, last>>

TreeWalk == BuildStep \/ BuildDone \/ RenderStep \/ RenderDone

NextTree == StartTree \/ TreeWalk \/ ToggleNode

SpecTree == InitTree /\ [][NextTree]_vars

\* getTaskTree and the render run to completion once called
SpecTreeFair == SpecTree /\ WF_vars(TreeWalk)

----------------------------------------------------------------------------
(* Dashboard: today's tasks, Realism Point, zone and display order *)

\* a ratio of two numbers, kept exact: num / den with den > 0
Ratio(n, d) == [num |-> n, den |-> d]

RatioLess(a, b) == a.num * b.den < b.num * a.den

RP_LIMITS_SAFE == Ratio(4, 5)     \* 0.8
RP_LIMITS_RISKY == Ratio(1, 1)    \* 1.0

\* targetDate.setHours(0, 0, 0, 0)
StartOfDay(date) == date - (date % TicksPerDay)

\* mutant: the day's upper end is taken in
getTasksForDateClosedDay(ts, date) ==
    SelectSeq(ts, LAMBDA t: /\ t.idl >= StartOfDay(date)
                            /\ t.idl <= StartOfDay(date) + TicksPerDay)

getTasksForDate(ts, date) ==
    SelectSeq(ts, LAMBDA t: /\ t.idl >= StartOfDay(date)
                            /\ t.idl < StartOfDay(date) + TicksPerDay)

\* todayTasks.reduce((sum, task) => sum + task.rt, 0)
RECURSIVE totalRT(_)
totalRT(ts) == IF ts = <<>> THEN 0 ELSE ts[1].rt + totalRT(Tail(ts))

realismPoint(todayTasks, available) ==
    IF available > 0 THEN Ratio(totalRT(todayTasks), available) ELSE Ratio(0, 1)

\* mutant: the Safe limit itself counts as Safe
getRPStatusSafeInclusive(rp) ==
    IF ~RatioLess(RP_LIMITS_SAFE, rp) THEN "Safe Zone"
    ELSE IF RatioLess(rp, RP_LIMITS_RISKY) THEN "Risky Zone"
    ELSE "Overload"

getRPStatus(rp) ==
    IF RatioLess(rp, RP_LIMITS_SAFE) THEN "Safe Zone"
    ELSE IF RatioLess(rp, RP_LIMITS_RISKY) THEN "Risky Zone"
    ELSE "Overload"

\* mutant: latest deadline first
compareTasksLatestFirst(a, b) == IF a.il # b.il THEN a.il - b.il ELSE b.idl - a.idl

\* the comparator handed to Array.prototype.sort
compareTasks(a, b) == IF a.il # b.il THEN a.il - b.il ELSE a.idl - b.idl

\* Array.prototype.sort is stable: an element goes behind every element
\* before it that does not compare greater
InsertTask(sorted, t) ==
    LET k == Cardinality({i \in 1..Len(sorted) : compareTasks(sorted[i], t) <= 0})
    IN SubSeq(sorted, 1, k) \o <<t>> \o SubSeq(sorted, k + 1, Len(sorted))

RECURSIVE SortFrom(_, _)
SortFrom(sorted, rest) ==
    IF rest = <<>> THEN sorted ELSE SortFrom(InsertTask(sorted, rest[1]), Tail(rest))

sortedTasks(todayTasks) == SortFrom(<<>>, todayTasks)

\* the memos of one render: todayTasks is taken at `date`, the rest follows
DashboardView(todayTasks, date, available) ==
    [date |-> date,
     todayTasks |-> todayTasks,
     realismPoint |-> realismPoint(todayTasks, available),
     status |-> getRPStatus(realismPoint(todayTasks, available)),
     sortedTasks |-> sortedTasks(todayTasks)]

MaxDashTasks == 3    \* tasks on the dashboard
MaxDashClock == 2    \* clock values while the dashboard is used

DashSpec(rt, idl, il) == [title |-> "t", rt |-> rt, idl |-> idl, il |-> il]

DashSpecs ==
    {DashSpec(2, 2, IMPORTANCE_MUST), DashSpec(6, 2, IMPORTANCE_MUST),
     DashSpec(6, 3, IMPORTANCE_MUST), DashSpec(2, 4, IMPORTANCE_MUST),
     DashSpec(2, 2, IMPORTANCE_MEDIUM), DashSpec(6, 3, IMPORTANCE_MEDIUM)}

HourInputs == {"", "8", "10"}

\* parseFloat(e.target.value) || 0
ParseHours(s) == CASE s = "8" -> 8 [] s = "10" -> 10 [] OTHER -> 0

TickDash == Tick(MaxDashClock)

\* a task is added on the DailyPlan page; the Dashboard is not mounted there
DailyPlanAddTask ==
    \E task \in DashSpecs :
        /\ Len(tasks) < MaxDashTasks
        /\ tasks' = addTask(tasks, task, now)
        /\ dashboard' = NoDashboard
        /\ last' = [Last("addTask", "ok", now, tasks, observations) EXCEPT !.newId = now]
        /\ UNCHANGED <<extVars, availableTime, obsVars, now, pageVars>>

\* navigating to the Dashboard renders it with the clock's date
MountDashboard ==
    /\ dashboard' = DashboardView(getTasksForDate(tasks, now), now, availableTime)
    /\ last' = Last("mount", "ok", NoId, tasks, observations)
    /\ UNCHANGED <<extVars, availableTime, tasks, obsVars, now, pageVars>>

\* the Available Time input: todayTasks keeps its memo, the rest follows
HandleAvailableTimeChange ==
    \E value \in HourInputs :
        /\ dashboard # NoDashboard
        /\ availableTime' = ParseHours(value)
        /\ dashboard' = DashboardView(dashboard.todayTasks, dashboard.date,
                                      ParseHours(value))
        /\ last' = Last("setAvailableTime", "ok", NoId, tasks, observations)
        /\ UNCHANGED <<extVars, tasks, obsVars, now, pageVars>>

\* the CWA button: tasks change, so todayTasks is taken again
HandleCWA ==
    \E confirmed \in BOOLEAN :
        /\ dashboard # NoDashboard
        /\ \E i \in 1..Len(tasks) : tasks[i].il # IMPORTANCE_MUST
        /\ IF confirmed
           THEN /\ tasks' = catastrophicWipeOut(tasks)
                /\ dashboard' = DashboardView(
                                    getTasksForDate(catastrophicWipeOut(tasks), now),
                                    now, availableTime)
                /\ last' = Last("catastrophicWipeOut", "ok", NoId, tasks, observations)
           ELSE UNCHANGED <<tasks, dashboard, last>>
        /\ UNCHANGED <<extVars, availableTime, obsVars, now, pageVars>>

NextDash ==
    \/ DailyPlanAddTask \/ MountDashboard \/ HandleAvailableTimeChange
    \/ HandleCWA \/ TickDash

SpecDash == Init /\ [][NextDash]_vars

----------------------------------------------------------------------------
(* ObservationsContext (modelled from spec.md 4.3 and 4.4) *)

\* mutant: nothing is trimmed
TrimNothing(s) == s

Trim(s) == IF s \in {"", " "} THEN "" ELSE s

NewObservation(id, content, clock) ==
    [id |-> id, content |-> content, createdAt |-> clock, status |-> "in_buffer",
     tags |-> <<>>, lessonIdentified |-> "", ep |-> NoId, convertedTaskId |-> NoId]

\* capture(content): ValidationError on empty / whitespace-only content
addObservation(prev, id, content, clock) ==
    IF Trim(content) = ""
    THEN [res |-> "ValidationError", obs |-> prev]
    ELSE [res |-> "ok", obs |-> Append(prev, NewObservation(id, content, clock))]

\* floor((now - createdAt) in days)
ElapsedDays(obs, clock) == (clock - obs.createdAt) \div TicksPerDay

\* mutant: the countdown is not clamped
getDaysRemainingUnclamped(obs, clock) == OBSERVATION_BUFFER_DAYS - ElapsedDays(obs, clock)

\* bufferDays - floor((now - createdAt) in days), clamped to >= 0
getDaysRemaining(obs, clock) ==
    IF OBSERVATION_BUFFER_DAYS - ElapsedDays(obs, clock) > 0
    THEN OBSERVATION_BUFFER_DAYS - ElapsedDays(obs, clock)
    ELSE 0

getInBuffer(obsList, clock) ==
    SelectSeq(obsList, LAMBDA o: o.status = "in_buffer" /\ getDaysRemaining(o, clock) > 0)

getReadyForAnalysis(obsList, clock) ==
    SelectSeq(obsList, LAMBDA o: o.status = "in_buffer" /\ getDaysRemaining(o, clock) <= 0)

ObsIds(obsList) == {o.id : o \in Range(obsList)}

ObsById(obsList, id) == CHOOSE o \in Range(obsList) : o.id = id

\* analyze(id, {tags, lessonIdentified, evaluationPoint})
analyzeObservation(prev, id, fields, clock) ==
    IF id \notin ObsIds(prev) THEN [res |-> "NotFoundError", obs |-> prev]
    ELSE IF getDaysRemaining(ObsById(prev, id), clock) > 0
    THEN [res |-> "StateError", obs |-> prev]
    ELSE [res |-> "ok",
          obs |-> [i \in 1..Len(prev) |->
                    IF prev[i].id = id
                    THEN [prev[i] EXCEPT !.status = "analyzed", !.tags = fields.tags,
                                         !.lessonIdentified = fields.lessonIdentified,
                                         !.ep = fields.ep]
                    ELSE prev[i]]]

\* the observation half of convert: the observation must be ready for
\* analysis and not already analyzed
convertToTask(prev, id, taskId, clock) ==
    IF id \notin ObsIds(prev) THEN [res |-> "NotFoundError", obs |-> prev]
    ELSE IF \/ ObsById(prev, id).status # "in_buffer"
            \/ getDaysRemaining(ObsById(prev, id), clock) > 0
    THEN [res |-> "StateError", obs |-> prev]
    ELSE [res |-> "ok",
          obs |-> [i \in 1..Len(prev) |->
                    IF prev[i].id = id
                    THEN [prev[i] EXCEPT !.status = "analyzed", !.convertedTaskId = taskId]
                    ELSE prev[i]]]

deleteObservation(prev, id) == SelectSeq(prev, LAMBDA o: o.id # id)

----------------------------------------------------------------------------
(* Observation repository operations, called with any argument *)

Contents == {" ", "x"}

AnalysisFields == {[tags |-> <<"x">>, lessonIdentified |-> "li", ep |-> 5]}

ObsIdArgs == 1..MaxObs

TickObs == Tick(MaxTime)

Capture ==
    \E content \in Contents :
        LET r == addObservation(observations, obsCounter + 1, content, now)
        IN /\ obsCounter < MaxObs
           /\ observations' = r.obs
           /\ obsCounter' = IF r.res = "ok" THEN obsCounter + 1 ELSE obsCounter
           /\ last' = [Last("capture", r.res, NoId, tasks, observations)
                          EXCEPT !.newId = IF r.res = "ok" THEN obsCounter + 1 ELSE NoId,
                                 !.text = content]
           /\ UNCHANGED <<extVars, dashVars, tasks, now, pageVars>>

AnalyzeObservation ==
    \E id \in ObsIdArgs, fields \in AnalysisFields :
        LET r == analyzeObservation(observations, id, fields, now)
        IN /\ observations' = r.obs
           /\ last' = Last("analyze", r.res, id, tasks, observations)
           /\ UNCHANGED <<extVars, dashVars, tasks, obsCounter, now, pageVars>>

ConvertToTask ==
    \E id \in ObsIdArgs, taskId \in {1} :
        LET r == convertToTask(observations, id, taskId, now)
        IN /\ observations' = r.obs
           /\ last' = Last("convertToTask", r.res, id, tasks, observations)
           /\ UNCHANGED <<extVars, dashVars, tasks, obsCounter, now, pageVars>>

DeleteObservation ==
    \E id \in ObsIds(observations) :
        /\ observations' = deleteObservation(observations, id)
        /\ last' = Last("deleteObservation", "ok", id, tasks, observations)
        /\ UNCHANGED <<extVars, dashVars, tasks, obsCounter, now, pageVars>>

NextObs == Capture \/ AnalyzeObservation \/ ConvertToTask \/ DeleteObservation \/ TickObs

SpecObs == Init /\ [][NextObs]_vars

----------------------------------------------------------------------------
(* pages/Observations.jsx: the handlers of the Observations page.  A       *)
(* handler can run whenever the element it is attached to is rendered; the *)
(* modal overlays are CSS only and leave the buttons below them in the     *)
(* document.  The two memoised lists are recomputed when the observation   *)
(* state changes (the provider re-renders), never by the passage of time.  *)

\* the form fields hold strings; parseFloat / new Date read them
ParseFloat(s) == CASE s = "-1" -> -1 [] s = "0" -> 0 [] s = "2" -> 2 [] OTHER -> 0

ParseDate(s) == CASE s = "1" -> 1 [] s = "2" -> 2 [] OTHER -> 0

ConvertForms ==
    [title : {" ", "t"}, rt : {"", "-1", "2"}, idl : {"", "1"},
     il : {IMPORTANCE_MUST, IMPORTANCE_MEDIUM}]

\* mutant: the number input without min="0"
ConvertFormValidNoMin(form) == form.title # "" /\ form.rt # "" /\ form.idl # ""

\* <input required>, <input type="number" min="0" required>,
\* <input type="datetime-local" required>: the browser submits the form only
\* when the constraints hold
ConvertFormValid(form) ==
    /\ form.title # ""
    /\ form.rt # "" /\ ParseFloat(form.rt) >= 0
    /\ form.idl # ""

\* if (!title.trim() || !rt || !idl) { alert(...); return; }
ConvertFieldsFilled(form) == Trim(form.title) # "" /\ form.rt # "" /\ form.idl # ""

\* mutants: the action buttons also in the In Buffer section; in every section;
\* also in the Analyzed section
ActionButtonsAlsoInBuffer == Range(readyForAnalysis) \cup Range(inBuffer)
ActionButtonsEverywhere == Range(observations)
ActionButtonsAlsoOnAnalyzed ==
    Range(readyForAnalysis) \cup {o \in Range(observations) : o.status = "analyzed"}

\* the observations whose Analyze / Convert to Task / Delete buttons are rendered
ActionButtons == Range(readyForAnalysis)

Rerender(obs) ==
    /\ inBuffer' = getInBuffer(obs, now)
    /\ readyForAnalysis' = getReadyForAnalysis(obs, now)

TickPage == Tick(MaxTime)

\* navigating to the page mounts it: fresh useState values, fresh memos
MountPage ==
    /\ selectedObservation' = NoObs
    /\ isAnalysisModalOpen' = FALSE
    /\ isConvertModalOpen' = FALSE
    /\ Rerender(observations)
    /\ last' = Last("mount", "ok", NoId, tasks, observations)
    /\ UNCHANGED <<extVars, dashVars, tasks, obsVars, now>>

HandleOBSubmit ==
    \E text \in Contents :
        /\ obsCounter < MaxObs
        /\ IF Trim(text) = ""
           THEN /\ last' = [Last("capture", "rejected", NoId, tasks, observations)
                                  EXCEPT !.text = text]
                /\ UNCHANGED <<extVars, dashVars, tasks, obsVars, now, pageVars>>
           ELSE LET r == addObservation(observations, obsCounter + 1, text, now)
                IN /\ observations' = r.obs
                   /\ obsCounter' = obsCounter + 1
                   /\ Rerender(r.obs)
                   /\ last' = [Last("capture", r.res, NoId, tasks, observations)
                                  EXCEPT !.newId = obsCounter + 1, !.text = text]
                   /\ UNCHANGED <<extVars, dashVars, tasks, now, selectedObservation,
                                  isAnalysisModalOpen, isConvertModalOpen>>

HandleOpenAnalysis ==
    \E obs \in ActionButtons :
        /\ selectedObservation' = obs
        /\ isAnalysisModalOpen' = TRUE
        /\ last' = Last("openAnalysis", "ok", obs.id, tasks, observations)
        /\ UNCHANGED <<extVars, dashVars, tasks, obsVars, now, isConvertModalOpen, inBuffer, readyForAnalysis>>

HandleAnalyze ==
    \E fields \in AnalysisFields :
        LET r == analyzeObservation(observations, selectedObservation.id, fields, now)
        IN /\ isAnalysisModalOpen /\ selectedObservation # NoObs
           /\ observations' = r.obs
           /\ last' = Last("analyze", r.res, selectedObservation.id, tasks, observations)
           /\ IF r.res = "ok"
              THEN /\ isAnalysisModalOpen' = FALSE
                   /\ selectedObservation' = NoObs
                   /\ Rerender(r.obs)
                   /\ UNCHANGED <<extVars, dashVars, tasks, obsCounter, now, isConvertModalOpen>>
              ELSE UNCHANGED <<extVars, dashVars, tasks, obsCounter, now, pageVars>>

CancelAnalysis ==
    /\ isAnalysisModalOpen /\ selectedObservation # NoObs
    /\ isAnalysisModalOpen' = FALSE
    /\ selectedObservation' = NoObs
    /\ last' = Last("cancelAnalysis", "ok", selectedObservation.id, tasks, observations)
    /\ UNCHANGED <<extVars, dashVars, tasks, obsVars, now, isConvertModalOpen, inBuffer, readyForAnalysis>>

HandleOpenConvert ==
    \E obs \in ActionButtons :
        /\ selectedObservation' = obs
        /\ isConvertModalOpen' = TRUE
        /\ last' = Last("openConvert", "ok", obs.id, tasks, observations)
        /\ UNCHANGED <<extVars, dashVars, tasks, obsVars, now, isAnalysisModalOpen, inBuffer, readyForAnalysis>>

HandleConvertToTask ==
    \E form \in ConvertForms :
        /\ isConvertModalOpen /\ selectedObservation # NoObs
        /\ Len(tasks) < MaxPageTasks
        /\ IF ~ConvertFormValid(form)
           THEN /\ last' = [Last("convert", "blocked", selectedObservation.id, tasks, observations)
                                  EXCEPT !.form = form]
                /\ UNCHANGED <<extVars, dashVars, tasks, obsVars, now, pageVars>>
           ELSE IF ~ConvertFieldsFilled(form)
           THEN /\ last' = [Last("convert", "rejected", selectedObservation.id, tasks, observations)
                                  EXCEPT !.form = form]
                /\ UNCHANGED <<extVars, dashVars, tasks, obsVars, now, pageVars>>
           ELSE LET spec == [title |-> Trim(form.title), rt |-> ParseFloat(form.rt),
                             idl |-> ParseDate(form.idl), il |-> form.il]
                    newTask == NewTask(spec, now)
                    r == convertToTask(observations, selectedObservation.id, newTask.id, now)
                IN /\ tasks' = addTask(tasks, spec, now)
                   /\ observations' = r.obs
                   /\ last' = [Last("convert", r.res, selectedObservation.id, tasks, observations)
                                  EXCEPT !.newId = newTask.id, !.form = form]
                   /\ IF r.res = "ok"
                      THEN /\ isConvertModalOpen' = FALSE
                           /\ selectedObservation' = NoObs
                           /\ Rerender(r.obs)
                           /\ UNCHANGED <<extVars, dashVars, obsCounter, now, isAnalysisModalOpen>>
                      ELSE UNCHANGED <<extVars, dashVars, obsCounter, now, pageVars>>

CancelConvert ==
    /\ isConvertModalOpen /\ selectedObservation # NoObs
    /\ isConvertModalOpen' = FALSE
    /\ selectedObservation' = NoObs
    /\ last' = Last("cancelConvert", "ok", selectedObservation.id, tasks, observations)
    /\ UNCHANGED <<extVars, dashVars, tasks, obsVars, now, isAnalysisModalOpen, inBuffer, readyForAnalysis>>

HandleDelete ==
    \E obs \in ActionButtons :
        /\ observations' = deleteObservation(observations, obs.id)
        /\ Rerender(deleteObservation(observations, obs.id))
        /\ last' = Last("deleteObservation", "ok", obs.id, tasks, observations)
        /\ UNCHANGED <<extVars, dashVars, tasks, obsCounter, now, selectedObservation,
                       isAnalysisModalOpen, isConvertModalOpen>>

NextPage ==
    \/ HandleOBSubmit \/ HandleOpenAnalysis \/ HandleAnalyze \/ CancelAnalysis
    \/ HandleOpenConvert \/ HandleConvertToTask \/ CancelConvert \/ HandleDelete
    \/ MountPage \/ TickPage

SpecPage == Init /\ [][NextPage]_vars

----------------------------------------------------------------------------
(* The Observations page together with the task pages: a task is deleted  *)
(* on the DailyPlan page or wiped out on the Dashboard, then the user      *)
(* comes back to the Observations page, which mounts again                 *)

DailyPlanDeleteTask ==
    \E taskId \in TaskIds(tasks) :
        /\ tasks' = deleteTask(tasks, taskId)
        /\ selectedObservation' = NoObs
        /\ isAnalysisModalOpen' = FALSE
        /\ isConvertModalOpen' = FALSE
        /\ Rerender(observations)
        /\ last' = Last("deleteTask", "ok", taskId, tasks, observations)
        /\ UNCHANGED <<extVars, dashVars, obsVars, now>>

DashboardWipeOut ==
    /\ \E i \in 1..Len(tasks) : tasks[i].il # IMPORTANCE_MUST
    /\ tasks' = catastrophicWipeOut(tasks)
    /\ selectedObservation' = NoObs
    /\ isAnalysisModalOpen' = FALSE
    /\ isConvertModalOpen' = FALSE
    /\ Rerender(observations)
    /\ last' = Last("catastrophicWipeOut", "ok", NoId, tasks, observations)
    /\ UNCHANGED <<extVars, dashVars, obsVars, now>>

NextBridge == NextPage \/ DailyPlanDeleteTask \/ DashboardWipeOut

SpecBridge == Init /\ [][NextBridge]_vars

----------------------------------------------------------------------------
(* C1: no task is its own ancestor: walking parentTaskId repeatedly from  *)
(* any task never returns to that task.                                    *)
NoTaskIsOwnAncestor == \A t \in Range(tasks) : t.id \notin Ancestors(tasks, t.id)

(* C2: after deleteTask(id) the task and all of its transitive descendants *)
(* are gone and no surviving task has a parentTaskId naming a deleted task.*)
DeleteCascades ==
    last.op = "deleteTask" =>
        LET gone == {last.id} \cup Descendants(last.preTasks, last.id)
        IN /\ \A t \in Range(tasks) : t.id \notin gone
           /\ \A t \in Range(tasks) : t.parentTaskId \notin gone

(* C3: a successful convert appends exactly one new task, and sets the      *)
(* observation's status to analyzed and its convertedTaskId to that task's *)
(* id; every other task and every other observation is unchanged.          *)
SuccessfulConvertEffect ==
    (last.op = "convert" /\ last.res = "ok") =>
        /\ Len(tasks) = Len(last.preTasks) + 1
        /\ SubSeq(tasks, 1, Len(last.preTasks)) = last.preTasks
        /\ tasks[Len(tasks)].id = last.newId
        /\ Cardinality({i \in 1..Len(last.preObs) : last.preObs[i].id = last.id}) = 1
        /\ Len(observations) = Len(last.preObs)
        /\ \A i \in 1..Len(observations) :
              IF last.preObs[i].id = last.id
              THEN observations[i] = [last.preObs[i] EXCEPT !.status = "analyzed",
                                                            !.convertedTaskId = last.newId]
              ELSE observations[i] = last.preObs[i]

SuccessfulConvertReached ==
    /\ last.op = "convert" /\ last.res = "ok"
    /\ Len(last.preTasks) >= 1
    /\ Len(observations) >= 2

(* C4: when the task spec given to convert fails validation (requiredTime  *)
(* < 0, importanceLevel outside 1..4, or a required field missing) no task *)
(* is added and the observation is left unmodified.                        *)
InvalidTaskSpec(form) ==
    \/ Trim(form.title) = "" \/ form.rt = "" \/ form.idl = ""
    \/ ParseFloat(form.rt) < 0
    \/ form.il \notin IMPORTANCE_MUST..IMPORTANCE_OPTIONAL

ConvertIsAtomic ==
    last.op = "convert" =>
        ((tasks # last.preTasks) <=>
            \E o \in Range(observations) :
                o.id = last.id /\ o.status = "analyzed" /\ o.convertedTaskId = last.newId)

AnalyzeRespectsBuffer ==
    (last.op = "analyze" /\ last.id \in ObsIds(last.preObs)) =>
        LET o == ObsById(last.preObs, last.id)
        IN IF last.at - o.createdAt < 2 * TicksPerDay
           THEN last.res = "StateError" /\ observations = last.preObs
           ELSE /\ last.res = "ok"
                /\ last.id \in ObsIds(observations)
                /\ ObsById(observations, last.id).status = "analyzed"

AnalyzeBothWaysReached ==
    /\ last.op = "analyze" /\ last.res = "StateError"
    /\ \E o \in Range(observations) : o.id = last.id /\ o.status = "in_buffer"
    /\ \E o \in Range(observations) : o.status = "analyzed" /\ o.ep = 5

BufferListsPartitionByAge ==
    \A o \in Range(observations) :
        o.status = "in_buffer" =>
            /\ (o \in Range(getInBuffer(observations, now)))
                   <=> (now - o.createdAt < 2 * TicksPerDay)
            /\ (o \in Range(getReadyForAnalysis(observations, now)))
                   <=> (now - o.createdAt >= 2 * TicksPerDay)
            /\ (o \in Range(getInBuffer(observations, now)))
                   # (o \in Range(getReadyForAnalysis(observations, now)))

BufferBoundaryReached ==
    /\ \E o \in Range(observations) :
          o.status = "in_buffer" /\ now - o.createdAt = 2 * TicksPerDay
    /\ \E o \in Range(observations) :
          o.status = "in_buffer" /\ now - o.createdAt = 2 * TicksPerDay - 1

(* C10: at every instant the in-buffer and ready-for-analysis lists the    *)
(* Observations page shows agree with the current time, without any other  *)
(* operation on the observations having to happen first.                   *)
PageListsFollowClock ==
    /\ inBuffer = getInBuffer(observations, now)
    /\ readyForAnalysis = getReadyForAnalysis(observations, now)

(* C11: every task has requiredTime >= 0 and importanceLevel in 1..4;     *)
(* addTask and updateTask reject a violating spec and change nothing.      *)
TaskFieldsValid ==
    \A t \in Range(tasks) :
        t.rt >= 0 /\ t.il \in IMPORTANCE_MUST..IMPORTANCE_OPTIONAL

(* C12: no two tasks of the repository have the same id, whatever the      *)
(* timing of the addTask calls.                                            *)
TaskIdsUnique ==
    \A i, j \in 1..Len(tasks) : i # j => tasks[i].id # tasks[j].id

(* C13: after catastrophicWipeOut the repository holds exactly the tasks   *)
(* that had importanceLevel 1 before, unchanged and in the same order.     *)
MustIndices(ts) == {i \in 1..Len(ts) : ts[i].il = 1}

WipeOutKeepsExactlyMust ==
    last.op = "catastrophicWipeOut" =>
        /\ Len(tasks) = Cardinality(MustIndices(last.preTasks))
        /\ \A i \in MustIndices(last.preTasks) :
              tasks[Cardinality({k \in MustIndices(last.preTasks) : k <= i})]
                  = last.preTasks[i]

WipeOutReached ==
    /\ last.op = "catastrophicWipeOut"
    /\ Len(last.preTasks) = 3 /\ Len(tasks) = 2
    /\ last.preTasks[2].il # 1
    /\ tasks[1] # tasks[2]

(* C14: catastrophicWipeOut is idempotent: applied to the repository a     *)
(* first call left, it leaves that repository as it is.                    *)
WipeOutIdempotent ==
    last.op = "catastrophicWipeOut" => catastrophicWipeOut(tasks) = tasks

WipeOutChangedReached ==
    /\ last.op = "catastrophicWipeOut"
    /\ tasks # last.preTasks
    /\ tasks # <<>>

(* C15: the Realism Point is totalRequiredTime / availableTime when        *)
(* availableTime > 0 and 0 when availableTime is 0, where                  *)
(* totalRequiredTime sums requiredTime over exactly the tasks whose        *)
(* idealDeadline lies in [startOfDay(date), startOfDay(date) + 1 day).     *)
DayStart(date) == CHOOSE d \in 0..date : d % TicksPerDay = 0 /\ date - d < TicksPerDay

InDay(date) == {i \in 1..Len(tasks) :
                   /\ DayStart(date) <= tasks[i].idl
                   /\ tasks[i].idl < DayStart(date) + TicksPerDay}

RECURSIVE RequiredTimeOver(_)
RequiredTimeOver(S) ==
    IF S = {} THEN 0
    ELSE LET i == CHOOSE x \in S : TRUE IN tasks[i].rt + RequiredTimeOver(S \ {i})

RealismPointIsLoadOverTime ==
    dashboard # NoDashboard =>
        /\ dashboard.realismPoint.den > 0
        /\ availableTime > 0 =>
              dashboard.realismPoint.num * availableTime
                  = RequiredTimeOver(InDay(dashboard.date)) * dashboard.realismPoint.den
        /\ availableTime = 0 => dashboard.realismPoint.num = 0

RealismPointReached ==
    /\ dashboard # NoDashboard
    /\ availableTime = 8
    /\ Cardinality(InDay(dashboard.date)) = 2
    /\ \E i \in 1..Len(tasks) :
          tasks[i].idl = DayStart(dashboard.date) + TicksPerDay
    /\ dashboard.realismPoint.num = 8

ComesBefore(ts, k, i) ==
    \/ ts[k].il < ts[i].il
    \/ ts[k].il = ts[i].il /\ ts[k].idl < ts[i].idl
    \/ ts[k].il = ts[i].il /\ ts[k].idl = ts[i].idl /\ k < i

DisplayOrderIsStableSort ==
    dashboard # NoDashboard =>
        LET in == dashboard.todayTasks
            out == dashboard.sortedTasks
        IN /\ Len(out) = Len(in)
           /\ \A i \in 1..Len(in) :
                 out[1 + Cardinality({k \in 1..Len(in) : ComesBefore(in, k, i)})]
                     = in[i]

DisplayOrderReached ==
    /\ dashboard # NoDashboard
    /\ Len(dashboard.todayTasks) = 3
    /\ dashboard.sortedTasks # dashboard.todayTasks
    /\ \E i, j \in 1..3 :
          /\ i < j
          /\ dashboard.sortedTasks[i].il = dashboard.sortedTasks[j].il
          /\ dashboard.sortedTasks[i].idl = dashboard.sortedTasks[j].idl
          /\ dashboard.sortedTasks[i] # dashboard.sortedTasks[j]

(* C18: updateTask with an id that no task has fails with NotFoundError    *)
(* and leaves the repository unchanged.                                    *)
UpdateUnknownFails ==
    (last.op = "updateTask" /\ last.id \notin TaskIds(last.preTasks)) =>
        (last.res = "NotFoundError" /\ tasks = last.preTasks)

(* C19: updateTask(id, {parentTaskId: p}) fails with CycleError and leaves *)
(* every task unchanged when p is id or a descendant of id.                *)
CycleRejected ==
    (/\ last.op = "updateTask"
     /\ "parentTaskId" \in DOMAIN last.updates
     /\ \/ last.updates.parentTaskId = last.id
        \/ last.updates.parentTaskId \in Descendants(last.preTasks, last.id))
        => (last.res = "CycleError" /\ tasks = last.preTasks)

(* C20: a capture with empty or whitespace-only content is rejected and   *)
(* adds no observation; every observation a capture adds starts with       *)
(* status in_buffer.                                                       *)
CaptureRejectsBlank ==
    last.op = "capture" =>
        /\ last.text \in {"", " "} =>
              (last.res # "ok" /\ observations = last.preObs)
        /\ observations # last.preObs =>
              /\ Len(observations) = Len(last.preObs) + 1
              /\ SubSeq(observations, 1, Len(last.preObs)) = last.preObs
              /\ observations[Len(observations)].status = "in_buffer"

BlankCaptureReached ==
    /\ last.op = "capture"
    /\ last.text = " "
    /\ last.res # "ok"
    /\ Len(observations) >= 1

(* C22: after the delete of a task no surviving task's linksTo contains   *)
(* the id of a deleted task.                                               *)
TaskLinks(t) == IF "linksTo" \in DOMAIN t THEN Range(t.linksTo) ELSE {}

DeletePrunesLinks ==
    last.op = "deleteTask" =>
        \A t \in Range(tasks) :
            TaskLinks(t) \cap (TaskIds(last.preTasks) \ TaskIds(tasks)) = {}

(* C25: a task's id and createdAt are immutable: whatever fields the       *)
(* updates of updateTask contain, both keep their values.                  *)
UpdateKeepsIdAndCreatedAt ==
    last.op = "updateTask" =>
        \A i \in 1..Len(last.preTasks) :
            /\ tasks[i].id = last.preTasks[i].id
            /\ tasks[i].createdAt = last.preTasks[i].createdAt

(* C30: updateTask touches only the target: number and order of the tasks  *)
(* are unchanged, every task with another id is unchanged, and every field *)
(* of the target that the updates do not name keeps its value.             *)
UpdateTouchesOnlyTarget ==
    last.op = "updateTask" =>
        /\ Len(tasks) = Len(last.preTasks)
        /\ \A i \in 1..Len(last.preTasks) :
              IF last.preTasks[i].id # last.id
              THEN tasks[i] = last.preTasks[i]
              ELSE \A f \in DOMAIN last.preTasks[i] \ DOMAIN last.updates :
                      f \in DOMAIN tasks[i] /\ tasks[i][f] = last.preTasks[i][f]

UpdateOfOneOfTwoReached ==
    /\ last.op = "updateTask"
    /\ Len(tasks) = 2
    /\ "linksTo" \in DOMAIN last.updates
    /\ \E i, j \in 1..2 :
          /\ tasks[i] = last.preTasks[i]
          /\ tasks[j] # last.preTasks[j]
          /\ tasks[j].title = "u"

(* C27: after catastrophicWipeOut no surviving task has a parentTaskId     *)
(* that refers to a task the wipe-out removed.                             *)
WipeOutLeavesNoOrphan ==
    last.op = "catastrophicWipeOut" =>
        \A t \in Range(tasks) :
            t.parentTaskId \notin (TaskIds(last.preTasks) \ TaskIds(tasks))

(* C28: every observation whose convertedTaskId is set refers to a task    *)
(* that exists in the task repository.                                     *)
ConvertedTaskExists ==
    \A o \in Range(observations) :
        o.convertedTaskId # NoId => o.convertedTaskId \in TaskIds(tasks)

(* C21: daysRemaining is max(0, 2 - whole days elapsed since createdAt):  *)
(* it lies in 0..2, never increases as the clock grows, and is 0 once two  *)
(* whole days have elapsed.                                                *)
WholeDaysSince(o) ==
    CHOOSE e \in 0..now :
        /\ e * TicksPerDay <= now - o.createdAt
        /\ now - o.createdAt < (e + 1) * TicksPerDay

DaysRemainingCountsDown ==
    \A o \in Range(observations) :
        /\ getDaysRemaining(o, now) =
              (IF WholeDaysSince(o) >= 2 THEN 0 ELSE 2 - WholeDaysSince(o))
        /\ getDaysRemaining(o, now) \in 0..2
        /\ \A t \in o.createdAt..now : getDaysRemaining(o, t) >= getDaysRemaining(o, now)
        /\ now - o.createdAt >= 2 * TicksPerDay => getDaysRemaining(o, now) = 0

DaysRemainingClampReached ==
    \E o, p \in Range(observations) :
        /\ now - o.createdAt >= 3 * TicksPerDay
        /\ getDaysRemaining(o, now) = 0
        /\ getDaysRemaining(p, now) = 1

(* C24: the delete of an observation is permitted in every state: an      *)
(* observation that is in_buffer, ready_for_analysis or analyzed can be    *)
(* removed, and after the call it is in none of the in-buffer, ready-for-  *)
(* analysis and analyzed views.                                            *)
InNoView(id) ==
    /\ \A o \in Range(inBuffer) : o.id # id
    /\ \A o \in Range(readyForAnalysis) : o.id # id
    /\ \A o \in Range(observations) : o.status = "analyzed" => o.id # id

NoMutationLost == pending = <<>> => tasks = inOrder

BatchOfTwoCommitted ==
    /\ last.op = "commit"
    /\ last.id = 2
    /\ last.res = "changed"
    /\ Len(tasks) = 2
    /\ \E i \in 1..Len(tasks) : tasks[i].il = IMPORTANCE_MUST

(* C26: driven through the DailyPlan form only, the parent chain stays    *)
(* acyclic: no task is its own ancestor, and the parent held by an open    *)
(* form is never the edited task or one of its descendants.                *)
FormKeepsParentChainAcyclic ==
    /\ \A t \in Range(tasks) : t.id \notin Ancestors(tasks, t.id)
    /\ (dailyPlan.editingTask # NoId /\ dailyPlan.parentTaskId # "") =>
           LET p == ParseFloatId(dailyPlan.parentTaskId)
           IN dailyPlan.editingTask \notin ({p} \cup Ancestors(tasks, p))

FormBuiltChainOfThree ==
    /\ last.op = "handleSubmit"
    /\ last.id # NoId
    /\ last.updates.parentTaskId # NoId
    /\ \E t \in Range(tasks), p \in Range(tasks) :
           /\ t.parentTaskId = p.id
           /\ t.id # last.id
           /\ p.id = last.id

(* C23: getTaskTree and the recursive rendering of its result by TreeNode *)
(* terminate for every task store, a store whose parentTaskId references   *)
(* form a cycle included: a walk that has started always comes to its end. *)
TreeWalkTerminates == (treeView.pc \in {"build", "render"}) ~> (treeView.pc = "done")

TreeOfCyclicStoreDone ==
    /\ treeView.pc = "done"
    /\ \E t \in Range(tasks) : t.id \in Ancestors(tasks, t.id)
    /\ treeView.rendered >= 2
    /\ treeView.expandedNodes # {}
    /\ \E k \in 1..Len(treeView.taskTree), j \in 1..Len(tasks) :
           /\ tasks[j].parentTaskId = tasks[treeView.taskTree[k].task].id
           /\ ~ \E c \in 1..Len(treeView.taskTree) :
                    treeView.taskTree[c].task = j /\ treeView.taskTree[c].parent = k

====
